---- MODULE Spec2Model ----
(***************************************************************************)
(* A model of the CoinMarketCap client of cmc.go: the WebClient, its four  *)
(* operations (Tickers, Ticker, Prices, Markets), the JSON decoding of     *)
(* ticker arrays, the goq extraction of the two scraped tables, and the    *)
(* JSON encoding the record types' struct tags prescribe.                  *)
(*                                                                         *)
(* Texts are sequences of one-character strings.  Pointers and slices that *)
(* may be nil are records with a nil flag (Nil, Some(v)).  Errors are      *)
(* strings, ErrNil standing for the nil error.                             *)
(***************************************************************************)
EXTENDS Integers, Sequences, FiniteSets, TLC

\* ------------------------------------------------------------------ bounds

\* Callers (goroutines) that call the client concurrently.
NumCallers == 2
\* Longest text drawn for one JSON string or one table cell.
MaxText == 2
\* Longest rank string drawn for the JSON rank field.
MaxRank == 2
\* Most elements of a JSON array, and most rows of a scraped table.
MaxElems == 2
\* Largest magnitude of TickersOptions.Start and TickersOptions.Limit.
MaxArg == 11

\* ------------------------------------------------------- nil and pointers

Nil == [nil |-> TRUE]
Some(v) == [nil |-> FALSE, val |-> v]

ErrNil == "nil"
ErrURL == "http.NewRequest"
ErrTransport == "httpClient.Do"
ErrDecode == "Decode"
ErrCardinality == "unexpected error retreiving ticker"

\* ------------------------------------------------------------------ texts

\* A byte that is not valid UTF-8, and the rune encoding/json puts in its place.
BadByte == "xFF"
Replacement == "uFFFD"
\* The characters of drawn texts: a digit, the thousands separator, a bad byte.
Chars == {"1", ",", BadByte}

RECURSIVE SeqsUpTo(_, _)
SeqsUpTo(S, n) ==
    IF n = 0 THEN {<<>>}
    ELSE LET shorter == SeqsUpTo(S, n - 1)
         IN  shorter \cup {Append(s, c) : s \in shorter, c \in S}

Texts == SeqsUpTo(Chars, MaxText)

ValidUTF8(s) == \A i \in 1..Len(s) : s[i] # BadByte

\* encoding/json, writing or reading a string, replaces invalid UTF-8.
CoerceUTF8(s) == [i \in 1..Len(s) |-> IF s[i] = BadByte THEN Replacement ELSE s[i]]

DigitChars == <<"0", "1", "2", "3", "4", "5", "6", "7", "8", "9">>
IsDigit(c) == \E d \in 1..10 : DigitChars[d] = c
DigitVal(c) == (CHOOSE d \in 1..10 : DigitChars[d] = c) - 1

RECURSIVE ItoaNat(_)
ItoaNat(n) ==
    IF n < 10 THEN <<DigitChars[n + 1]>>
    ELSE Append(ItoaNat(n \div 10), DigitChars[(n % 10) + 1])

\* strconv.Itoa
Itoa(n) == IF n < 0 THEN <<"-">> \o ItoaNat(-n) ELSE ItoaNat(n)

RECURSIVE ParseUint(_)
ParseUint(s) ==
    IF s = <<>> THEN 0
    ELSE ParseUint(SubSeq(s, 1, Len(s) - 1)) * 10 + DigitVal(s[Len(s)])

AllDigits(s) == s # <<>> /\ \A i \in 1..Len(s) : IsDigit(s[i])

\* strconv.ParseInt(s, 10, 64): an optional sign, then digits.
ParseIntOK(s) ==
    /\ s # <<>>
    /\ IF s[1] \in {"-", "+"} THEN AllDigits(Tail(s)) ELSE AllDigits(s)

ParseInt(s) ==
    IF s[1] = "-" THEN -ParseUint(Tail(s))
    ELSE IF s[1] = "+" THEN ParseUint(Tail(s))
    ELSE ParseUint(s)

\* clean as strings.Replace(s, ",", "", 1) would be: the first comma only.
CleanFirstOnly(s) ==
    IF \E i \in 1..Len(s) : s[i] = ","
    THEN LET i == CHOOSE i \in 1..Len(s) : s[i] = "," /\ \A j \in 1..(i - 1) : s[j] # ","
         IN  SubSeq(s, 1, i - 1) \o SubSeq(s, i + 1, Len(s))
    ELSE s

\* clean: strings.Replace(s, ",", "", -1)
RECURSIVE clean(_)
clean(s) ==
    IF s = <<>> THEN <<>>
    ELSE IF Head(s) = "," THEN clean(Tail(s))
    ELSE <<Head(s)>> \o clean(Tail(s))

RECURSIVE Concat(_)
Concat(ss) == IF ss = <<>> THEN <<>> ELSE Head(ss) \o Concat(Tail(ss))

\* ------------------------------------------------------------ JSON values

JNull == [t |-> "null"]
JAbsent == [t |-> "absent"]
JNum == [t |-> "num"]
JStr(s) == [t |-> "str", s |-> s]
JObject(f) == [t |-> "object", f |-> f]
JArray(es) == [t |-> "array", elems |-> es]
\* A body that is not JSON at all (also a body cut short by the connection).
JInvalid == [t |-> "invalid"]

\* The JSON keys of Ticker's string fields, and all its keys.
TickerTextKeys ==
    {"id", "name", "symbol", "price_usd", "price_btc", "24h_volume_usd",
     "market_cap_usd", "available_supply", "total_supply", "percent_change_1h",
     "percent_change_24h", "percent_change_7d", "last_updated"}
TickerKeys == TickerTextKeys \cup {"rank"}
PriceKeys ==
    {"date", "open", "high_usd", "low_usd", "close_usd", "24hr_volume_usd",
     "market_cap_usd"}
MarketKeys == {"source", "pair", "volume_percent"}

\* A string field takes a JSON string (coerced to valid UTF-8); null or a missing
\* key leaves it at its zero value; any other JSON value is an UnmarshalTypeError.
StringOK(v) == v.t \in {"str", "null", "absent"}
StringOf(v) == IF v.t = "str" THEN CoerceUTF8(v.s) ELSE <<>>

\* Rank int `json:"rank,string"`: the value is a JSON string holding the number.
RankOK(v) ==
    \/ v.t \in {"null", "absent"}
    \/ /\ v.t = "str"
       /\ v.s # <<>>
       /\ (v.s[1] = "-" \/ IsDigit(v.s[1]))
       /\ ParseIntOK(v.s)

RankOf(v) == IF v.t = "str" THEN ParseInt(v.s) ELSE 0

TickerOKOf(f) == RankOK(f["rank"]) /\ \A k \in TickerTextKeys : StringOK(f[k])

\* TickerOf with the tags of SupplyAvailable and SupplyTotal exchanged.
TickerOfSwapped(f) ==
    [ID               |-> StringOf(f["id"]),
     Name             |-> StringOf(f["name"]),
     Symbol           |-> StringOf(f["symbol"]),
     Rank             |-> RankOf(f["rank"]),
     PriceUSD         |-> StringOf(f["price_usd"]),
     PriceBTC         |-> StringOf(f["price_btc"]),
     VolumeUSD24hr    |-> StringOf(f["24h_volume_usd"]),
     MarketCapUSD     |-> StringOf(f["market_cap_usd"]),
     SupplyAvailable  |-> StringOf(f["total_supply"]),
     SupplyTotal      |-> StringOf(f["available_supply"]),
     PercentChange1h  |-> StringOf(f["percent_change_1h"]),
     PercentChange24h |-> StringOf(f["percent_change_24h"]),
     PercentChange7d  |-> StringOf(f["percent_change_7d"]),
     LastUpdated      |-> StringOf(f["last_updated"])]

\* The Ticker a JSON object decodes to, by the struct tags.
TickerOf(f) ==
    [ID               |-> StringOf(f["id"]),
     Name             |-> StringOf(f["name"]),
     Symbol           |-> StringOf(f["symbol"]),
     Rank             |-> RankOf(f["rank"]),
     PriceUSD         |-> StringOf(f["price_usd"]),
     PriceBTC         |-> StringOf(f["price_btc"]),
     VolumeUSD24hr    |-> StringOf(f["24h_volume_usd"]),
     MarketCapUSD     |-> StringOf(f["market_cap_usd"]),
     SupplyAvailable  |-> StringOf(f["available_supply"]),
     SupplyTotal      |-> StringOf(f["total_supply"]),
     PercentChange1h  |-> StringOf(f["percent_change_1h"]),
     PercentChange24h |-> StringOf(f["percent_change_24h"]),
     PercentChange7d  |-> StringOf(f["percent_change_7d"]),
     LastUpdated      |-> StringOf(f["last_updated"])]

\* One array element into a *Ticker: null is the nil pointer.
ElemOK(e) == e.t = "null" \/ (e.t = "object" /\ TickerOKOf(e.f))
ElemOf(e) == IF e.t = "null" THEN Nil ELSE Some(TickerOf(e.f))

\* json.NewDecoder(res.Body).Decode(&tickers), tickers a []*Ticker: the body null
\* sets the slice to nil; an array is decoded element by element.
DecodeTickersOK(body) ==
    \/ body.t = "null"
    \/ body.t = "array" /\ \A i \in 1..Len(body.elems) : ElemOK(body.elems[i])

DecodeTickers(body) ==
    IF body.t = "null" THEN Nil
    ELSE Some([i \in 1..Len(body.elems) |-> ElemOf(body.elems[i])])

\* --------------------------------------------------- JSON encoding by tags

\* EncodeTicker with the tags of SupplyAvailable and SupplyTotal exchanged.
EncodeTickerSwapped(r) ==
    [k \in TickerKeys |->
        CASE k = "id"                 -> JStr(CoerceUTF8(r.ID))
          [] k = "name"               -> JStr(CoerceUTF8(r.Name))
          [] k = "symbol"             -> JStr(CoerceUTF8(r.Symbol))
          [] k = "rank"               -> JStr(Itoa(r.Rank))
          [] k = "price_usd"          -> JStr(CoerceUTF8(r.PriceUSD))
          [] k = "price_btc"          -> JStr(CoerceUTF8(r.PriceBTC))
          [] k = "24h_volume_usd"     -> JStr(CoerceUTF8(r.VolumeUSD24hr))
          [] k = "market_cap_usd"     -> JStr(CoerceUTF8(r.MarketCapUSD))
          [] k = "available_supply"   -> JStr(CoerceUTF8(r.SupplyTotal))
          [] k = "total_supply"       -> JStr(CoerceUTF8(r.SupplyAvailable))
          [] k = "percent_change_1h"  -> JStr(CoerceUTF8(r.PercentChange1h))
          [] k = "percent_change_24h" -> JStr(CoerceUTF8(r.PercentChange24h))
          [] k = "percent_change_7d"  -> JStr(CoerceUTF8(r.PercentChange7d))
          [] k = "last_updated"       -> JStr(CoerceUTF8(r.LastUpdated))]

EncodeTicker(r) ==
    [k \in TickerKeys |->
        CASE k = "id"                 -> JStr(CoerceUTF8(r.ID))
          [] k = "name"               -> JStr(CoerceUTF8(r.Name))
          [] k = "symbol"             -> JStr(CoerceUTF8(r.Symbol))
          [] k = "rank"               -> JStr(Itoa(r.Rank))
          [] k = "price_usd"          -> JStr(CoerceUTF8(r.PriceUSD))
          [] k = "price_btc"          -> JStr(CoerceUTF8(r.PriceBTC))
          [] k = "24h_volume_usd"     -> JStr(CoerceUTF8(r.VolumeUSD24hr))
          [] k = "market_cap_usd"     -> JStr(CoerceUTF8(r.MarketCapUSD))
          [] k = "available_supply"   -> JStr(CoerceUTF8(r.SupplyAvailable))
          [] k = "total_supply"       -> JStr(CoerceUTF8(r.SupplyTotal))
          [] k = "percent_change_1h"  -> JStr(CoerceUTF8(r.PercentChange1h))
          [] k = "percent_change_24h" -> JStr(CoerceUTF8(r.PercentChange24h))
          [] k = "percent_change_7d"  -> JStr(CoerceUTF8(r.PercentChange7d))
          [] k = "last_updated"       -> JStr(CoerceUTF8(r.LastUpdated))]

EncodePrice(r) ==
    [k \in PriceKeys |->
        CASE k = "date"            -> JStr(CoerceUTF8(r.Date))
          [] k = "open"            -> JStr(CoerceUTF8(r.OpenUSD))
          [] k = "high_usd"        -> JStr(CoerceUTF8(r.HighUSD))
          [] k = "low_usd"         -> JStr(CoerceUTF8(r.LowUSD))
          [] k = "close_usd"       -> JStr(CoerceUTF8(r.CloseUSD))
          [] k = "24hr_volume_usd" -> JStr(CoerceUTF8(r.VolumeUSD24hr))
          [] k = "market_cap_usd"  -> JStr(CoerceUTF8(r.MarketCapUSD))]

PriceOf(f) ==
    [Date          |-> StringOf(f["date"]),
     OpenUSD       |-> StringOf(f["open"]),
     HighUSD       |-> StringOf(f["high_usd"]),
     LowUSD        |-> StringOf(f["low_usd"]),
     CloseUSD      |-> StringOf(f["close_usd"]),
     VolumeUSD24hr |-> StringOf(f["24hr_volume_usd"]),
     MarketCapUSD  |-> StringOf(f["market_cap_usd"])]

\* VolumeUSD24hr and PriceUSD are tagged `json:"-"`: never written, never read.
EncodeMarket(r) ==
    [k \in MarketKeys |->
        CASE k = "source"         -> JStr(CoerceUTF8(r.Source))
          [] k = "pair"           -> JStr(CoerceUTF8(r.Pair))
          [] k = "volume_percent" -> JStr(CoerceUTF8(r.VolumePercentage))]

MarketOf(f) ==
    [Source           |-> StringOf(f["source"]),
     Pair             |-> StringOf(f["pair"]),
     VolumeUSD24hr    |-> <<>>,
     PriceUSD         |-> <<>>,
     VolumePercentage |-> StringOf(f["volume_percent"])]

\* json.Marshal of a *Ticker and of a []*Ticker: nil is written as null.
EncodeTickerPtr(p) == IF p.nil THEN JNull ELSE JObject(EncodeTicker(p.val))
EncodeTickers(s) ==
    IF s.nil THEN JNull
    ELSE JArray([i \in 1..Len(s.val) |-> EncodeTickerPtr(s.val[i])])

\* json.Marshal of a []*Price, and json.Unmarshal of what it wrote.
EncodePrices(s) ==
    IF s.nil THEN JNull
    ELSE JArray([i \in 1..Len(s.val) |->
                    IF s.val[i].nil THEN JNull ELSE JObject(EncodePrice(s.val[i].val))])
DecodePrices(b) ==
    IF b.t = "null" THEN Nil
    ELSE Some([i \in 1..Len(b.elems) |->
                  IF b.elems[i].t = "null" THEN Nil ELSE Some(PriceOf(b.elems[i].f))])

\* json.Marshal of a []*Market, and json.Unmarshal of what it wrote.
EncodeMarkets(s) ==
    IF s.nil THEN JNull
    ELSE JArray([i \in 1..Len(s.val) |->
                    IF s.val[i].nil THEN JNull ELSE JObject(EncodeMarket(s.val[i].val))])
DecodeMarkets(b) ==
    IF b.t = "null" THEN Nil
    ELSE Some([i \in 1..Len(b.elems) |->
                  IF b.elems[i].t = "null" THEN Nil ELSE Some(MarketOf(b.elems[i].f))])

\* json.Marshal then json.Unmarshal into a value of the same type.
RoundTripTickers(s) == DecodeTickers(EncodeTickers(s))
RoundTripTicker(p) == ElemOf(EncodeTickerPtr(p))
RoundTripPrices(s) == DecodePrices(EncodePrices(s))
RoundTripMarkets(s) == DecodeMarkets(EncodeMarkets(s))

\* ------------------------------------------------------- goq extraction

\* A fetched page is what the selectors of pricesQ and marketsQ see of it: the
\* `tbody tr` rows in document order, and per row the texts of the elements each
\* field's selector matches.  readErr: the body could not be read to its end.
\*   prices row:  [dates |-> texts of td.text-left, vals |-> texts of [data-format-value]]
\*   markets row: [links |-> texts of td a,         spans |-> texts of td span]

\* goq.NewDecoder(res.Body).Decode(&_prices): a [6]string field needs exactly six
\* matches in its row; a slice takes however many rows there are, none included.
pricesQOK(page) ==
    /\ ~page.readErr
    /\ \A i \in 1..Len(page.rows) : Len(page.rows[i].vals) = 6

pricesQ(page) ==
    [i \in 1..Len(page.rows) |->
        [Date |-> Concat(page.rows[i].dates), Vals |-> page.rows[i].vals]]

marketsQOK(page) ==
    /\ ~page.readErr
    /\ \A i \in 1..Len(page.rows) :
          Len(page.rows[i].links) = 2 /\ Len(page.rows[i].spans) = 3

marketsQ(page) ==
    [i \in 1..Len(page.rows) |->
        [SourcePair |-> page.rows[i].links, Vals |-> page.rows[i].spans]]

\* The loop body of Prices: one Price from one extracted row.
PriceOfRow(p) ==
    [Date          |-> p.Date,
     OpenUSD       |-> clean(p.Vals[1]),
     HighUSD       |-> clean(p.Vals[2]),
     LowUSD        |-> clean(p.Vals[3]),
     CloseUSD      |-> clean(p.Vals[4]),
     VolumeUSD24hr |-> clean(p.Vals[5]),
     MarketCapUSD  |-> clean(p.Vals[6])]

\* The loop body of Markets: one Market from one extracted row.
MarketOfRow(m) ==
    [Source           |-> m.SourcePair[1],
     Pair             |-> m.SourcePair[2],
     VolumeUSD24hr    |-> m.Vals[1],
     PriceUSD         |-> m.Vals[2],
     VolumePercentage |-> m.Vals[3]]

\* ------------------------------------------------------------------- URLs

apiAddr == "https://api.coinmarketcap.com/v1"
websiteAddr == "https://coinmarketcap.com/currencies"
\* An address a test passes to WithAPIAddress, and one url.Parse rejects.
ServerAddr == "http://127.0.0.1:8080"
BadAddr == ":"
\* A coin id, and one that makes the URL unparsable (an invalid escape).
GoodID == "bitcoin"
BadID == "%zz"

DefaultHTTPClient == "http.DefaultClient"
CustomHTTPClient == "custom http.Client"

\* A URL is its address prefix, the path segments appended to it, the encoded
\* query (Nil when the URL has no "?"), and the fragment.
\* url.Values.Encode writes the parameters sorted by key.
\* TickersURL leaving out a parameter whose value is 0.
TickersURLSkipZero(c, opts) ==
    [addr  |-> c.apiAddr,
     path  |-> <<"ticker">>,
     query |-> IF opts.nil THEN Nil
               ELSE Some(SelectSeq(<<<<"limit", Itoa(opts.val.Limit)>>,
                                     <<"start", Itoa(opts.val.Start)>>>>,
                                   LAMBDA kv : kv[2] # <<"0">>)),
     frag  |-> ""]

TickersURL(c, opts) ==
    [addr  |-> c.apiAddr,
     path  |-> <<"ticker">>,
     query |-> IF opts.nil THEN Nil
               ELSE Some(<<<<"limit", Itoa(opts.val.Limit)>>,
                           <<"start", Itoa(opts.val.Start)>>>>),
     frag  |-> ""]

TickerURL(c, id) ==
    [addr |-> c.apiAddr, path |-> <<"ticker", id>>, query |-> Nil, frag |-> ""]

PricesURL(c, id, opts) ==
    [addr  |-> c.websiteAddr,
     path  |-> <<id, "historical-data">>,
     query |-> IF opts.nil THEN Nil
               ELSE Some(<<<<"end", opts.val.End>>, <<"start", opts.val.Start>>>>),
     frag  |-> ""]

MarketsURL(c, id) ==
    [addr |-> c.websiteAddr, path |-> <<id>>, query |-> Nil, frag |-> "markets"]

\* http.NewRequest fails when url.Parse rejects the string.
NewRequestOK(u) ==
    /\ u.addr # BadAddr
    /\ \A i \in 1..Len(u.path) : u.path[i] # BadID

\* ----------------------------------------------------------- construction

WithHTTPClient(httpClient) == [name |-> "WithHTTPClient", arg |-> httpClient]
WithAPIAddress(addr) == [name |-> "WithAPIAddress", arg |-> addr]

\* opt(cli)
ApplyOption(c, opt) ==
    IF opt.name = "WithHTTPClient" THEN [c EXCEPT !.httpClient = opt.arg]
    ELSE [c EXCEPT !.apiAddr = opt.arg]

RECURSIVE ApplyOptions(_, _)
ApplyOptions(c, opts) ==
    IF opts = <<>> THEN c
    ELSE ApplyOptions(ApplyOption(c, Head(opts)), Tail(opts))

NewWebClient(opts) ==
    ApplyOptions([apiAddr     |-> apiAddr,
                  websiteAddr |-> websiteAddr,
                  httpClient  |-> DefaultHTTPClient], opts)

\* ---------------------------------------------------- what servers send

\* The ticker objects of the test's body, shortened: object i has rank i and,
\* under every other key, a text that names the key and the object.
FixtureObject(i) ==
    [k \in TickerKeys |->
        IF k = "rank" THEN JStr(Itoa(i)) ELSE JStr(<<k, DigitChars[i + 1]>>)]

FixtureArray(n) == [i \in 1..n |-> JObject(FixtureObject(i))]

TextVals == {JNull, JAbsent, JNum} \cup {JStr(s) : s \in Texts}
RankChars == {"0", "1", "-", "+"}
RankVals == {JNull, JAbsent, JNum} \cup {JStr(s) : s \in SeqsUpTo(RankChars, MaxRank)}

\* Object i with the value under one key replaced.
ObjectVariants(i) ==
    {[FixtureObject(i) EXCEPT ![k] = v] : k \in TickerTextKeys, v \in TextVals}
        \cup {[FixtureObject(i) EXCEPT !["rank"] = v] : v \in RankVals}

ElemVariants(i) == {JNull, JNum} \cup {JObject(f) : f \in ObjectVariants(i)}

\* Bodies of the API: not JSON, null, an object, and the arrays of up to MaxElems
\* fixture objects with at most one element replaced by a variant.
RichJSONBodies ==
    {JInvalid, JNull, JObject(FixtureObject(1))}
        \cup {JArray(FixtureArray(n)) : n \in 0..MaxElems}
        \cup UNION {UNION {{JArray([FixtureArray(n) EXCEPT ![i] = e]) :
                               e \in ElemVariants(i)} : i \in 1..n} : n \in 0..MaxElems}

SmallJSONBodies == {JInvalid, JArray(<<>>), JArray(FixtureArray(1))}

PriceColumns == <<"open", "high", "low", "close", "volume", "marketcap">>

FixturePriceRow(i) ==
    [dates |-> <<<<"date", DigitChars[i + 1]>>>>,
     vals  |-> [j \in 1..6 |-> <<PriceColumns[j], DigitChars[i + 1]>>]]

\* Row i with one cell's text replaced, with no or two date cells, with five or
\* seven value cells.
PriceRowVariants(i) ==
    LET r == FixturePriceRow(i)
    IN  {[r EXCEPT !.vals[j] = t] : j \in 1..6, t \in Texts}
            \cup {[r EXCEPT !.dates = <<t>>] : t \in Texts}
            \cup {[r EXCEPT !.dates = <<>>], [r EXCEPT !.dates = <<<<"1">>, <<"1">>>>],
                  [r EXCEPT !.vals = SubSeq(r.vals, 1, 5)],
                  [r EXCEPT !.vals = Append(r.vals, <<"1">>)]}

FixtureMarketRow(i) ==
    [links |-> <<<<"source", DigitChars[i + 1]>>, <<"pair", DigitChars[i + 1]>>>>,
     spans |-> <<<<"volume", DigitChars[i + 1]>>, <<"price", DigitChars[i + 1]>>,
                 <<"percent", DigitChars[i + 1]>>>>]

MarketRowVariants(i) ==
    LET r == FixtureMarketRow(i)
    IN  {[r EXCEPT !.links[j] = t] : j \in 1..2, t \in Texts}
            \cup {[r EXCEPT !.spans[j] = t] : j \in 1..3, t \in Texts}
            \cup {[r EXCEPT !.links = SubSeq(r.links, 1, 1)],
                  [r EXCEPT !.links = Append(r.links, <<"1">>)],
                  [r EXCEPT !.spans = SubSeq(r.spans, 1, 2)],
                  [r EXCEPT !.spans = Append(r.spans, <<"1">>)]}

Page(rows) == [readErr |-> FALSE, rows |-> rows]
BrokenPage == [readErr |-> TRUE, rows |-> <<>>]

\* Pages of up to MaxElems fixture rows with at most one row replaced by a variant.
RichPricePages ==
    {BrokenPage}
        \cup {Page([i \in 1..n |-> FixturePriceRow(i)]) : n \in 0..MaxElems}
        \cup UNION {UNION {{Page([[j \in 1..n |-> FixturePriceRow(j)] EXCEPT ![i] = r]) :
                               r \in PriceRowVariants(i)} : i \in 1..n} : n \in 0..MaxElems}

RichMarketPages ==
    {BrokenPage}
        \cup {Page([i \in 1..n |-> FixtureMarketRow(i)]) : n \in 0..MaxElems}
        \cup UNION {UNION {{Page([[j \in 1..n |-> FixtureMarketRow(j)] EXCEPT ![i] = r]) :
                               r \in MarketRowVariants(i)} : i \in 1..n} : n \in 0..MaxElems}

SmallPricePages == {Page(<<>>), Page(<<FixturePriceRow(1)>>)}
SmallMarketPages == {Page(<<>>), Page(<<FixtureMarketRow(1)>>)}

\* ------------------------------------------------------ what callers pass

Ops == {"Markets", "Prices", "Ticker", "Tickers"}

TickersOptions(start, limit) == [Start |-> start, Limit |-> limit]
PricesOptions(start, end) == [Start |-> start, End |-> end]

Args(id, opts) == [id |-> id, opts |-> opts]
NoArgs == Args("", Nil)

\* The three ranges of inputs the specifications draw from: "conc" for the
\* concurrent callers, "args" for rich arguments, "data" for rich responses.
TickersOptionsOf(d) ==
    IF d = "args"
    THEN {Nil} \cup {Some(TickersOptions(i, j)) : i, j \in (-MaxArg)..MaxArg}
    ELSE {Nil, Some(TickersOptions(0, 0))}

PricesOptionsOf(d) ==
    IF d = "args" THEN {Nil, Some(PricesOptions("20200101", "20200131"))} ELSE {Nil}

ArgsOf(o, d) ==
    CASE o = "Tickers" -> {Args("", opts) : opts \in TickersOptionsOf(d)}
      [] o = "Ticker"  -> {Args(id, Nil) : id \in {GoodID, BadID}}
      [] o = "Prices"  -> {Args(id, opts) : id \in {GoodID, BadID}, opts \in PricesOptionsOf(d)}
      [] o = "Markets" -> {Args(id, Nil) : id \in {GoodID, BadID}}

BodiesOf(o, d) ==
    CASE o \in {"Tickers", "Ticker"} -> IF d = "data" THEN RichJSONBodies ELSE SmallJSONBodies
      [] o = "Prices"  -> IF d = "data" THEN RichPricePages ELSE SmallPricePages
      [] o = "Markets" -> IF d = "data" THEN RichMarketPages ELSE SmallMarketPages

\* The option lists NewWebClient is constructed with.
OptionLists ==
    {<<>>, <<WithAPIAddress(ServerAddr)>>, <<WithAPIAddress(BadAddr)>>,
     <<WithHTTPClient(CustomHTTPClient), WithAPIAddress(ServerAddr)>>}

\* ------------------------------------------------------------------ state

Callers == 1..NumCallers

VARIABLES
    cli,     \* the WebClient: [apiAddr, websiteAddr, httpClient]
    pc,      \* pc[p]: where caller p's call stands
    op,      \* op[p]: the operation p called
    args,    \* args[p]: its arguments
    req,     \* req[p]: the *http.Request built, Nil before
    sent,    \* sent[p]: requests this call has handed to httpClient.Do
    resp,    \* resp[p]: the response body received, Nil before
    closes,  \* closes[p]: calls of res.Body.Close() in this call
    res,     \* res[p]: the call's first return value
    err      \* err[p]: the call's error return value

vars == <<cli, pc, op, args, req, sent, resp, closes, res, err>>

Init ==
    /\ cli \in {NewWebClient(os) : os \in OptionLists}
    /\ pc = [p \in Callers |-> "idle"]
    /\ op = [p \in Callers |-> ""]
    /\ args = [p \in Callers |-> NoArgs]
    /\ req = [p \in Callers |-> Nil]
    /\ sent = [p \in Callers |-> 0]
    /\ resp = [p \in Callers |-> Nil]
    /\ closes = [p \in Callers |-> 0]
    /\ res = [p \in Callers |-> Nil]
    /\ err = [p \in Callers |-> ErrNil]

\* ------------------------------------------------- the operations' results

\* Tickers, from `tickers := []*Ticker{}` to its return.
TickersResult(body) ==
    IF ~DecodeTickersOK(body) THEN [res |-> Nil, err |-> ErrDecode]
    ELSE [res |-> DecodeTickers(body), err |-> ErrNil]

\* TickerResult taking the first element of any non-empty array.
TickerResultFirst(body) ==
    IF ~DecodeTickersOK(body) THEN [res |-> Nil, err |-> ErrDecode]
    ELSE LET tickers == DecodeTickers(body)
         IN  IF tickers.nil \/ Len(tickers.val) = 0
             THEN [res |-> Nil, err |-> ErrCardinality]
             ELSE [res |-> tickers.val[1], err |-> ErrNil]

\* Ticker, from `tickers := []*Ticker{}` to its return: len(tickers) != 1 is an error.
TickerResult(body) ==
    IF ~DecodeTickersOK(body) THEN [res |-> Nil, err |-> ErrDecode]
    ELSE LET tickers == DecodeTickers(body)
             len == IF tickers.nil THEN 0 ELSE Len(tickers.val)
         IN  IF len # 1 THEN [res |-> Nil, err |-> ErrCardinality]
             ELSE [res |-> tickers.val[1], err |-> ErrNil]

\* Prices, from `var _prices pricesQ` to its return.
PricesResult(page) ==
    IF ~pricesQOK(page) THEN [res |-> Nil, err |-> ErrDecode]
    ELSE LET _prices == pricesQ(page)
         IN  [res |-> Some([i \in 1..Len(_prices) |-> Some(PriceOfRow(_prices[i]))]),
              err |-> ErrNil]

\* Markets, from `var _markets marketsQ` to its return.
MarketsResult(page) ==
    IF ~marketsQOK(page) THEN [res |-> Nil, err |-> ErrDecode]
    ELSE LET _markets == marketsQ(page)
         IN  [res |-> Some([i \in 1..Len(_markets) |-> Some(MarketOfRow(_markets[i]))]),
              err |-> ErrNil]

ResultOf(o, body) ==
    CASE o = "Tickers" -> TickersResult(body)
      [] o = "Ticker"  -> TickerResult(body)
      [] o = "Prices"  -> PricesResult(body)
      [] o = "Markets" -> MarketsResult(body)

URLOf(c, o, a) ==
    CASE o = "Tickers" -> TickersURL(c, a.opts)
      [] o = "Ticker"  -> TickerURL(c, a.id)
      [] o = "Prices"  -> PricesURL(c, a.id, a.opts)
      [] o = "Markets" -> MarketsURL(c, a.id)

\* ---------------------------------------------------------------- actions

\* Caller p calls one of the four operations, with arguments from range d.
Call(p, d) ==
    /\ pc[p] = "idle"
    /\ \E o \in Ops : \E a \in ArgsOf(o, d) :
          /\ op' = [op EXCEPT ![p] = o]
          /\ args' = [args EXCEPT ![p] = a]
    /\ pc' = [pc EXCEPT ![p] = "newRequest"]
    /\ UNCHANGED <<cli, req, sent, resp, closes, res, err>>

\* NewRequest writing an address into the client it was called on.
NewRequestStoresURL(p) ==
    /\ pc[p] = "newRequest"
    /\ LET u == URLOf(cli, op[p], args[p])
       IN  IF NewRequestOK(u)
           THEN /\ req' = [req EXCEPT ![p] = Some(u)]
                /\ pc' = [pc EXCEPT ![p] = "do"]
                /\ UNCHANGED <<res, err>>
           ELSE /\ res' = [res EXCEPT ![p] = Nil]
                /\ err' = [err EXCEPT ![p] = ErrURL]
                /\ pc' = [pc EXCEPT ![p] = "returned"]
                /\ UNCHANGED req
    /\ cli' = [cli EXCEPT !.apiAddr = ServerAddr]
    /\ UNCHANGED <<op, args, sent, resp, closes>>

\* The URL is built and handed to http.NewRequest; its error is returned.
NewRequest(p) ==
    /\ pc[p] = "newRequest"
    /\ LET u == URLOf(cli, op[p], args[p])
       IN  IF NewRequestOK(u)
           THEN /\ req' = [req EXCEPT ![p] = Some(u)]
                /\ pc' = [pc EXCEPT ![p] = "do"]
                /\ UNCHANGED <<res, err>>
           ELSE /\ res' = [res EXCEPT ![p] = Nil]
                /\ err' = [err EXCEPT ![p] = ErrURL]
                /\ pc' = [pc EXCEPT ![p] = "returned"]
                /\ UNCHANGED req
    /\ UNCHANGED <<cli, op, args, sent, resp, closes>>

\* Do sending the request a second time when the first attempt fails.
DoRetry(p, d) ==
    /\ pc[p] = "do"
    /\ sent' = [sent EXCEPT ![p] = @ + 1]
    /\ \/ /\ sent[p] = 0
          /\ UNCHANGED <<pc, resp, res, err>>
       \/ /\ res' = [res EXCEPT ![p] = Nil]
          /\ err' = [err EXCEPT ![p] = ErrTransport]
          /\ pc' = [pc EXCEPT ![p] = "returned"]
          /\ UNCHANGED resp
       \/ /\ \E body \in BodiesOf(op[p], d) : resp' = [resp EXCEPT ![p] = Some(body)]
          /\ pc' = [pc EXCEPT ![p] = "decode"]
          /\ UNCHANGED <<res, err>>
    /\ UNCHANGED <<cli, op, args, req, closes>>

\* cli.httpClient.Do(req): the transport fails and the error is returned, or a
\* response arrives, with a body from range d, and its Close is deferred.
Do(p, d) ==
    /\ pc[p] = "do"
    /\ sent' = [sent EXCEPT ![p] = @ + 1]
    /\ \/ /\ res' = [res EXCEPT ![p] = Nil]
          /\ err' = [err EXCEPT ![p] = ErrTransport]
          /\ pc' = [pc EXCEPT ![p] = "returned"]
          /\ UNCHANGED resp
       \/ /\ \E body \in BodiesOf(op[p], d) : resp' = [resp EXCEPT ![p] = Some(body)]
          /\ pc' = [pc EXCEPT ![p] = "decode"]
          /\ UNCHANGED <<res, err>>
    /\ UNCHANGED <<cli, op, args, req, closes>>

\* Decode with the Close not deferred: an error returns with the body open.
DecodeCloseOnSuccessOnly(p) ==
    /\ pc[p] = "decode"
    /\ LET r == ResultOf(op[p], resp[p].val)
       IN  /\ res' = [res EXCEPT ![p] = r.res]
           /\ err' = [err EXCEPT ![p] = r.err]
           /\ pc' = [pc EXCEPT ![p] = IF r.err = ErrNil THEN "defer" ELSE "returned"]
    /\ UNCHANGED <<cli, op, args, req, sent, resp, closes>>

\* The body is decoded and the return values are set; the deferred Close is next.
Decode(p) ==
    /\ pc[p] = "decode"
    /\ LET r == ResultOf(op[p], resp[p].val)
       IN  /\ res' = [res EXCEPT ![p] = r.res]
           /\ err' = [err EXCEPT ![p] = r.err]
    /\ pc' = [pc EXCEPT ![p] = "defer"]
    /\ UNCHANGED <<cli, op, args, req, sent, resp, closes>>

\* The deferred res.Body.Close() runs and the operation returns.
Close(p) ==
    /\ pc[p] = "defer"
    /\ closes' = [closes EXCEPT ![p] = @ + 1]
    /\ pc' = [pc EXCEPT ![p] = "returned"]
    /\ UNCHANGED <<cli, op, args, req, sent, resp, res, err>>

\* The caller takes the return values; it may call again.
Return(p) ==
    /\ pc[p] = "returned"
    /\ pc' = [pc EXCEPT ![p] = "idle"]
    /\ op' = [op EXCEPT ![p] = ""]
    /\ args' = [args EXCEPT ![p] = NoArgs]
    /\ req' = [req EXCEPT ![p] = Nil]
    /\ sent' = [sent EXCEPT ![p] = 0]
    /\ resp' = [resp EXCEPT ![p] = Nil]
    /\ closes' = [closes EXCEPT ![p] = 0]
    /\ res' = [res EXCEPT ![p] = Nil]
    /\ err' = [err EXCEPT ![p] = ErrNil]
    /\ UNCHANGED cli

\* Any number of callers, any interleaving of their calls' steps.
Next ==
    \E p \in Callers :
        \/ Call(p, "conc")
        \/ NewRequest(p)
        \/ Do(p, "conc")
        \/ Decode(p)
        \/ Close(p)
        \/ Return(p)

Spec == Init /\ [][Next]_vars

\* One caller, its arguments drawn from the rich range.
NextArgs ==
    \/ Call(1, "args")
    \/ NewRequest(1)
    \/ Do(1, "args")
    \/ Decode(1)
    \/ Close(1)
    \/ Return(1)

SpecArgs == Init /\ [][NextArgs]_vars

\* One caller, the responses drawn from the rich range.
NextData ==
    \/ Call(1, "data")
    \/ NewRequest(1)
    \/ Do(1, "data")
    \/ Decode(1)
    \/ Close(1)
    \/ Return(1)

SpecData == Init /\ [][NextData]_vars

\* ------------------------------------------------------------- the claims

Finished(p) == pc[p] \in {"defer", "returned"}
Responded(p) == Finished(p) /\ ~resp[p].nil
Body(p) == resp[p].val

\* The integer a decimal string denotes, read digit by digit from the left.
DecimalDigit(c) ==
    CASE c = "0" -> 0 [] c = "1" -> 1 [] c = "2" -> 2 [] c = "3" -> 3 [] c = "4" -> 4
      [] c = "5" -> 5 [] c = "6" -> 6 [] c = "7" -> 7 [] c = "8" -> 8 [] c = "9" -> 9

RECURSIVE DecimalFrom(_, _)
DecimalFrom(acc, s) ==
    IF s = <<>> THEN acc ELSE DecimalFrom(acc * 10 + DecimalDigit(Head(s)), Tail(s))

IsNumericString(s) ==
    /\ s # <<>>
    /\ LET d == IF s[1] = "-" THEN Tail(s) ELSE s
       IN  d # <<>> /\ \A i \in 1..Len(d) : d[i] \in {"0", "1", "2", "3", "4", "5", "6", "7", "8", "9"}

IntegerValue(s) == IF s[1] = "-" THEN -DecimalFrom(0, Tail(s)) ELSE DecimalFrom(0, s)

\* The decimal numeral of n: numeric, of value n, no leading zero, no "-0".
IsDecimalOf(s, n) ==
    /\ IsNumericString(s)
    /\ IntegerValue(s) = n
    /\ LET d == IF s[1] = "-" THEN Tail(s) ELSE s
       IN  /\ (Len(d) > 1 => d[1] # "0")
           /\ (s[1] = "-" => n < 0)

\* C1: Ticker(id) returns an error and no record whenever the successfully decoded
\* array does not have exactly one element, and returns that one element with a nil
\* error when it has exactly one.
C1_TickerCardinality ==
    \A p \in Callers :
        (op[p] = "Ticker" /\ Responded(p) /\ Body(p).t = "array" /\ DecodeTickersOK(Body(p)))
            => LET es == Body(p).elems
               IN  IF Len(es) = 1
                   THEN /\ err[p] = ErrNil
                        /\ res[p].nil = (es[1].t = "null")
                        /\ (~res[p].nil => res[p].val = TickerOf(es[1].f))
                   ELSE res[p].nil /\ err[p] = ErrCardinality

\* A Ticker call has returned the cardinality error for an array of two elements.
C1_Witness ==
    \E p \in Callers :
        /\ op[p] = "Ticker" /\ pc[p] = "returned" /\ ~resp[p].nil
        /\ Body(p).t = "array" /\ DecodeTickersOK(Body(p)) /\ Len(Body(p).elems) = 2
        /\ err[p] = ErrCardinality

\* A well-formed ticker-array body: an array of objects, every text key a valid
\* UTF-8 string, rank a numeric string.
WellFormedTickerBody(b) ==
    /\ b.t = "array"
    /\ \A i \in 1..Len(b.elems) :
          /\ b.elems[i].t = "object"
          /\ \A k \in TickerTextKeys :
                b.elems[i].f[k].t = "str" /\ ValidUTF8(b.elems[i].f[k].s)
          /\ b.elems[i].f["rank"].t = "str"
          /\ IsNumericString(b.elems[i].f["rank"].s)

\* C2: for every well-formed ticker-array body, Tickers(nil) succeeds and returns
\* one record per array element, in the array's order, every text field equal to
\* the JSON string under its key and Rank equal to the integer the rank string
\* denotes.
C2_TickersDecodeVerbatim ==
    \A p \in Callers :
        (op[p] = "Tickers" /\ args[p].opts.nil /\ Responded(p) /\ WellFormedTickerBody(Body(p)))
            => /\ err[p] = ErrNil
               /\ ~res[p].nil
               /\ Len(res[p].val) = Len(Body(p).elems)
               /\ \A i \in 1..Len(Body(p).elems) :
                     LET f == Body(p).elems[i].f
                         r == res[p].val[i]
                     IN  /\ ~r.nil
                         /\ r.val.ID = f["id"].s
                         /\ r.val.Name = f["name"].s
                         /\ r.val.Symbol = f["symbol"].s
                         /\ r.val.Rank = IntegerValue(f["rank"].s)
                         /\ r.val.PriceUSD = f["price_usd"].s
                         /\ r.val.PriceBTC = f["price_btc"].s
                         /\ r.val.VolumeUSD24hr = f["24h_volume_usd"].s
                         /\ r.val.MarketCapUSD = f["market_cap_usd"].s
                         /\ r.val.SupplyAvailable = f["available_supply"].s
                         /\ r.val.SupplyTotal = f["total_supply"].s
                         /\ r.val.PercentChange1h = f["percent_change_1h"].s
                         /\ r.val.PercentChange24h = f["percent_change_24h"].s
                         /\ r.val.PercentChange7d = f["percent_change_7d"].s
                         /\ r.val.LastUpdated = f["last_updated"].s

\* Tickers(nil) has returned the two records of a well-formed two-element body,
\* the second with a two-character rank string.
C2_Witness ==
    \E p \in Callers :
        /\ op[p] = "Tickers" /\ args[p].opts.nil /\ pc[p] = "returned" /\ ~resp[p].nil
        /\ WellFormedTickerBody(Body(p)) /\ Len(Body(p).elems) = 2
        /\ Len(Body(p).elems[2].f["rank"].s) = 2
        /\ err[p] = ErrNil /\ ~res[p].nil /\ Len(res[p].val) = 2

\* What json.Marshal then json.Unmarshal make of a call's result.
RoundTrip(p) ==
    CASE op[p] = "Tickers" -> RoundTripTickers(res[p])
      [] op[p] = "Ticker"  -> RoundTripTicker(res[p])
      [] op[p] = "Prices"  -> RoundTripPrices(res[p])
      [] op[p] = "Markets" -> RoundTripMarkets(res[p])

Succeeded(p) == pc[p] = "returned" /\ err[p] = ErrNil

\* The texts of every returned Price or Market are valid UTF-8.
ScrapedTextsValid(p) ==
    \/ res[p].nil
    \/ \A i \in 1..Len(res[p].val) :
          LET r == res[p].val[i].val
          IN  \A k \in DOMAIN r : ValidUTF8(r[k])

\* A Market without the two fields its struct tags keep out of the JSON.
WithoutUntagged(m) == [m EXCEPT !.VolumeUSD24hr = <<>>, !.PriceUSD = <<>>]

\* C3, as stated: encoding any returned record sequence to JSON and decoding it
\* back reproduces the sequence, field for field, VolumeUSD24hr and PriceUSD of
\* every Market included.
C3_RoundTripAllFields ==
    \A p \in Callers : Succeeded(p) => RoundTrip(p) = res[p]

\* C3, amended: the results of Tickers and Ticker always survive the round trip,
\* Rank included; those of Prices do when their texts are valid UTF-8; those of
\* Markets, texts valid, come back with Source, Pair and VolumePercentage as they
\* were and with VolumeUSD24hr and PriceUSD empty.
C3_RoundTripTagged ==
    \A p \in Callers :
        Succeeded(p) =>
            CASE op[p] \in {"Tickers", "Ticker"} -> RoundTrip(p) = res[p]
              [] op[p] = "Prices" -> (ScrapedTextsValid(p) => RoundTrip(p) = res[p])
              [] op[p] = "Markets" ->
                    (ScrapedTextsValid(p) =>
                        /\ ~RoundTrip(p).nil
                        /\ Len(RoundTrip(p).val) = Len(res[p].val)
                        /\ \A i \in 1..Len(res[p].val) :
                              RoundTrip(p).val[i] = Some(WithoutUntagged(res[p].val[i].val)))

\* Markets has returned a Market with a 24-hour volume and a price, and Tickers a
\* record whose rank is negative.
C3_Witness ==
    \E p \in Callers :
        /\ Succeeded(p)
        /\ \/ /\ op[p] = "Markets" /\ Len(res[p].val) = 2
              /\ res[p].val[1].val.VolumeUSD24hr # <<>>
              /\ res[p].val[1].val.PriceUSD # <<>>
              /\ ScrapedTextsValid(p)
           \/ /\ op[p] = "Tickers" /\ ~res[p].nil /\ Len(res[p].val) = 2
              /\ ~res[p].val[2].nil /\ res[p].val[2].val.Rank < 0

\* C4, as stated: every operation returns either a non-nil result with a nil error
\* or a nil result with a non-nil error.
C4_AllOrNothing ==
    \A p \in Callers :
        pc[p] = "returned" =>
            \/ ~res[p].nil /\ err[p] = ErrNil
            \/ res[p].nil /\ err[p] # ErrNil

\* Commas removed, by filtering.
StripCommas(s) == SelectSeq(s, LAMBDA c : c # ",")
NoComma(s) == \A i \in 1..Len(s) : s[i] # ","

\* A historical-data page as the provider serves it: readable, six value cells in
\* every row.
HistoricalDataPage(page) ==
    ~page.readErr /\ \A i \in 1..Len(page.rows) : Len(page.rows[i].vals) = 6

\* C5: for every historical-data page Prices returns one Price per table row in
\* document order, the row's six value cells in column order as OpenUSD, HighUSD,
\* LowUSD, CloseUSD, VolumeUSD24hr, MarketCapUSD, each holding no comma and equal
\* to the cell's text with every comma removed.
C5_PricesRowsCleaned ==
    \A p \in Callers :
        (op[p] = "Prices" /\ Responded(p) /\ HistoricalDataPage(Body(p)))
            => /\ err[p] = ErrNil
               /\ ~res[p].nil
               /\ Len(res[p].val) = Len(Body(p).rows)
               /\ \A i \in 1..Len(Body(p).rows) :
                     LET v == Body(p).rows[i].vals
                         r == res[p].val[i]
                         stored == <<r.val.OpenUSD, r.val.HighUSD, r.val.LowUSD,
                                     r.val.CloseUSD, r.val.VolumeUSD24hr, r.val.MarketCapUSD>>
                     IN  /\ ~r.nil
                         /\ \A j \in 1..6 : NoComma(stored[j]) /\ stored[j] = StripCommas(v[j])

\* Prices has returned two rows, one of them with a cell of two commas.
C5_Witness ==
    \E p \in Callers :
        /\ op[p] = "Prices" /\ Succeeded(p) /\ ~resp[p].nil
        /\ Len(Body(p).rows) = 2
        /\ \E i \in 1..2 : \E j \in 1..6 : Body(p).rows[i].vals[j] = <<",", ",">>

\* C6, as stated: Prices and Markets fail whenever the fetched page has no table
\* row to extract; they never succeed with an empty sequence.
C6_NoRowsIsAnError ==
    \A p \in Callers :
        (/\ op[p] \in {"Prices", "Markets"}
         /\ pc[p] = "returned" /\ ~resp[p].nil
         /\ Len(Body(p).rows) = 0)
            => err[p] # ErrNil /\ res[p].nil

\* The value sent under query key k, as a set (empty when the key is not sent).
QueryValues(q, k) == {q[i][2] : i \in {j \in 1..Len(q) : q[j][1] = k}}

\* C7: Tickers requests {api_base}/ticker, with no query string when the options
\* are nil and with exactly a start and a limit parameter, the decimal numerals of
\* options.Start and options.Limit, when they are not, zero values included.
C7_TickersURL ==
    \A p \in Callers :
        (op[p] = "Tickers" /\ ~req[p].nil)
            => LET u == req[p].val
                   o == args[p].opts
               IN  /\ u.addr = cli.apiAddr
                   /\ u.path = <<"ticker">>
                   /\ u.query.nil = o.nil
                   /\ ~o.nil =>
                         /\ Len(u.query.val) = 2
                         /\ \E s \in QueryValues(u.query.val, "start") : IsDecimalOf(s, o.val.Start)
                         /\ \E s \in QueryValues(u.query.val, "limit") : IsDecimalOf(s, o.val.Limit)

\* Requests are out for Tickers with options whose Start is 0 and whose Limit is
\* negative with two digits.
C7_Witness ==
    \E p \in Callers :
        /\ op[p] = "Tickers" /\ pc[p] = "do" /\ ~req[p].nil
        /\ ~args[p].opts.nil
        /\ args[p].opts.val.Start = 0
        /\ args[p].opts.val.Limit < -9

\* C8: once the request has produced a response, its body is closed exactly once
\* by the time the operation returns, on every exit path; it is never closed twice.
C8_BodyClosedOnce ==
    \A p \in Callers :
        /\ closes[p] <= 1
        /\ pc[p] = "returned" => closes[p] = (IF resp[p].nil THEN 0 ELSE 1)

\* Ticker has returned its cardinality error, and another call a decode error, with
\* their bodies closed.
C8_Witness ==
    \E p, q \in Callers :
        /\ pc[p] = "returned" /\ op[p] = "Ticker" /\ err[p] = ErrCardinality /\ closes[p] = 1
        /\ pc[q] = "returned" /\ err[q] = ErrDecode /\ closes[q] = 1

\* C9: a call issues at most one request, and exactly one once request construction
\* has succeeded and the call has returned; no failure is followed by a second
\* request; a call that received a response returns only with it decoded and closed.
C9_SingleRequest ==
    \A p \in Callers :
        /\ sent[p] <= 1
        /\ pc[p] = "returned" => sent[p] = (IF req[p].nil THEN 0 ELSE 1)
        /\ pc[p] \in {"decode", "defer"} => sent[p] = 1
        /\ (pc[p] = "returned" /\ err[p] = ErrNil) => ~resp[p].nil /\ closes[p] = 1

\* One call has returned a transport error and another a decode error, each after
\* its one request.
C9_Witness ==
    \E p, q \in Callers :
        /\ pc[p] = "returned" /\ err[p] = ErrTransport /\ sent[p] = 1
        /\ pc[q] = "returned" /\ err[q] = ErrDecode /\ sent[q] = 1

\* Every request built is addressed by the configuration, and two calls of the same
\* operation with the same arguments and the same response have the same outcome.
CallsIndependent ==
    /\ \A p \in Callers :
          ~req[p].nil =>
              req[p].val.addr =
                  (IF op[p] \in {"Tickers", "Ticker"} THEN cli.apiAddr ELSE cli.websiteAddr)
    /\ \A p, q \in Callers :
          (/\ Finished(p) /\ Finished(q)
           /\ op[p] = op[q] /\ args[p] = args[q]
           /\ resp[p].nil = resp[q].nil
           /\ (~resp[p].nil => Body(p) = Body(q)))
              => res[p] = res[q] /\ err[p] = err[q]

\* C10: no step of any call changes the client's configuration, whatever the
\* interleaving, and each call's request and outcome come from the configuration,
\* its own arguments and its own response alone.
C10_ConfigImmutable == [][cli' = cli]_vars /\ []CallsIndependent

\* Two calls are in flight at once against a client with an overridden API
\* address, one decoding and one sending.
C10_Witness ==
    \E p, q \in Callers :
        /\ p # q
        /\ cli.apiAddr = ServerAddr
        /\ pc[p] = "decode" /\ op[p] = "Tickers"
        /\ pc[q] = "do" /\ op[q] = "Ticker"

====
